---- MODULE Spec2Model ----
(***************************************************************************)
(* Model of the mixed-content parser behind the MarkdownLatex component    *)
(* (parseContent -> parseInlineContent -> parseMarkdown ->                 *)
(* parseInlineMarkdown), and of the chat transport of the App component    *)
(* that supplies its messages (sendChatMessage, handleSend,                *)
(* handleFileUpload).  A string is a sequence of one-character strings;    *)
(* offsets are 0-based as in JavaScript, so s.slice(a, b) is               *)
(* SubSeq(s, a+1, b).                                                      *)
(***************************************************************************)
EXTENDS Integers, Sequences, FiniteSets, TLC

VARIABLES
  text,       \* the `children` string handed to MarkdownLatex
  rejected,   \* the expressions the math typesetter throws on
  elements,   \* the `elements` array of the last parseContent call
  rendered,   \* what MarkdownLatex returned: "pending", "null" or "span"
  log,        \* the completed calls, oldest first: [input, output]
  scan,       \* one regex scanning loop, stepped exec by exec
  sse,        \* one sendChatMessage call of the App component: its reading loop
  app         \* the App component: its React state and the handler in progress

vars == <<text, rejected, elements, rendered, log, scan, sse, app>>

----------------------------------------------------------------------------
(* Characters and JavaScript string primitives                             *)

NL == "\n"
SP == " "
DOLLAR == "$"
STAR == "*"
PIPE == "|"
DASH == "-"
COLON == ":"
\* the backquote character (the lexer of the tools cannot hold it in a string)
TICK == "BACKQUOTE"
DOT == "."
LBRACK == "["
RBRACK == "]"
LPAREN == "("
RPAREN == ")"

Whitespace == {SP, NL}
Digits == {"0", "1", "2", "3", "4", "5", "6", "7", "8", "9"}

Slice(s, a, b) == SubSeq(s, a + 1, b)

CharAt(s, p) == IF p >= 0 /\ p < Len(s) THEN s[p + 1] ELSE ""

JsSlice(s, a, b) ==
  LET n == Len(s)
      from == IF a < 0 THEN (IF n + a < 0 THEN 0 ELSE n + a) ELSE (IF a > n THEN n ELSE a)
      to == IF b < 0 THEN (IF n + b < 0 THEN 0 ELSE n + b) ELSE (IF b > n THEN n ELSE b)
  IN IF from >= to THEN <<>> ELSE Slice(s, from, to)

StartsWithAt(s, p, w) == p + Len(w) <= Len(s) /\ SubSeq(s, p + 1, p + Len(w)) = w

StartsWith(s, w) == StartsWithAt(s, 0, w)

EndsWith(s, w) == Len(w) <= Len(s) /\ StartsWithAt(s, Len(s) - Len(w), w)

Includes(s, c) == \E k \in 1..Len(s) : s[k] = c

RECURSIVE TrimStart(_)
TrimStart(s) ==
  IF s # <<>> /\ Head(s) \in Whitespace THEN TrimStart(Tail(s)) ELSE s

RECURSIVE TrimEnd(_)
TrimEnd(s) ==
  IF s # <<>> /\ s[Len(s)] \in Whitespace
  THEN TrimEnd(SubSeq(s, 1, Len(s) - 1)) ELSE s

Trim(s) == TrimEnd(TrimStart(s))

\* smallest offset p >= from at which w occurs in s, or -1
RECURSIVE FirstAt(_, _, _)
FirstAt(s, w, from) ==
  IF from + Len(w) > Len(s) THEN -1
  ELSE IF StartsWithAt(s, from, w) THEN from
  ELSE FirstAt(s, w, from + 1)

\* s.split(c) for a one-character separator
RECURSIVE Split(_, _)
Split(s, c) ==
  LET k == FirstAt(s, <<c>>, 0)
  IN IF k < 0 THEN <<s>>
     ELSE <<Slice(s, 0, k)>> \o Split(Slice(s, k + 1, Len(s)), c)

RECURSIVE Flatten(_)
Flatten(seqs) == IF seqs = <<>> THEN <<>> ELSE Head(seqs) \o Flatten(Tail(seqs))

\* end offset of the longest run of characters outside excl that starts at p
RECURSIVE RunEnd(_, _, _)
RunEnd(s, p, excl) ==
  IF p >= Len(s) \/ s[p + 1] \in excl THEN p ELSE RunEnd(s, p + 1, excl)

\* end offset of the longest run of characters inside incl that starts at p
RECURSIVE RunEndIn(_, _, _)
RunEndIn(s, p, incl) ==
  IF p >= Len(s) \/ s[p + 1] \notin incl THEN p ELSE RunEndIn(s, p + 1, incl)

NoMatch == [index |-> -1]

IsMatch(m) == m.index >= 0

----------------------------------------------------------------------------
(* Render nodes                                                            *)

PlainText(t) == [type |-> "PlainText", text |-> t]
Bold(t) == [type |-> "Bold", text |-> t]
Italic(t) == [type |-> "Italic", text |-> t]
InlineCode(t) == [type |-> "InlineCode", text |-> t]
Link(t, u) == [type |-> "Link", text |-> t, url |-> u]
BlockMathNode(e) == [type |-> "BlockMath", expression |-> e]
InlineMathNode(e) == [type |-> "InlineMath", expression |-> e]
\* <code className="text-red-500">: the literal shown when the typesetter throws
MathFallback(t) == [type |-> "MathFallback", text |-> t]
LineBreak == [type |-> "LineBreak"]
ListItem(k, l, c) == [type |-> "ListItem", kind |-> k, label |-> l, children |-> c]
Table(h, r) == [type |-> "Table", headers |-> h, rows |-> r]
\* <span>{tableText}</span>: renderMarkdownTable given fewer than two lines
TableText(t) == [type |-> "TableText", text |-> t]

\* the glyph every bullet item is drawn with
BulletGlyph == <<"BULLET">>

----------------------------------------------------------------------------
(* parseInlineMarkdown: the four emphasis patterns                         *)

PatternCount == 4

PatternType(k) ==
  CASE k = 1 -> "Bold" [] k = 2 -> "Italic" [] k = 3 -> "InlineCode" [] OTHER -> "Link"

\* open content+ close, the content a run of characters outside excl:
\* the match that starts at offset i, or NoMatch
DelimitedAt(s, i, open, excl, close) ==
  LET c == i + Len(open)
      r == RunEnd(s, c, excl)
  IN IF StartsWithAt(s, i, open) /\ r > c /\ StartsWithAt(s, r, close)
     THEN [index |-> i, end |-> r + Len(close), g1 |-> Slice(s, c, r), groups |-> 1]
     ELSE NoMatch

\* /\[([^\]]+)\]\(([^)]+)\)/ at offset i
LinkAt(s, i) ==
  LET t == DelimitedAt(s, i, <<LBRACK>>, {RBRACK}, <<RBRACK, LPAREN>>)
      u == IF ~IsMatch(t) THEN t.index ELSE RunEnd(s, t.end, {RPAREN})
  IN IF IsMatch(t) /\ u > t.end /\ CharAt(s, u) = RPAREN
     THEN [index |-> i, end |-> u + 1, g1 |-> t.g1, g2 |-> Slice(s, t.end, u),
           groups |-> 2]
     ELSE NoMatch

PatternAt(k, s, i) ==
  CASE k = 1 -> DelimitedAt(s, i, <<STAR, STAR>>, {STAR}, <<STAR, STAR>>)
    [] k = 2 -> DelimitedAt(s, i, <<STAR>>, {STAR}, <<STAR>>)
    [] k = 3 -> DelimitedAt(s, i, <<TICK>>, {TICK}, <<TICK>>)
    [] OTHER -> LinkAt(s, i)

\* pattern.regex.exec(s) with lastIndex = from: the leftmost match at an
\* offset >= from, or NoMatch
RECURSIVE PatternExec(_, _, _)
PatternExec(k, s, from) ==
  IF from >= Len(s) THEN NoMatch
  ELSE IF IsMatch(PatternAt(k, s, from)) THEN PatternAt(k, s, from)
  ELSE PatternExec(k, s, from + 1)

\* lastIndex left at the start of the match instead of its end
LastIndexAtMatchStart(m) == IF IsMatch(m) THEN m.index ELSE 0

\* a global regex leaves lastIndex at the end of a match, at 0 after a miss
LastIndexAfter(m) == IF IsMatch(m) THEN m.end ELSE 0

\* lastIndex left where the existence test put it
KeepLastIndex(afterTest) == afterTest

\* pattern.regex.lastIndex = 0, after the existence test
ResetLastIndex(afterTest) == 0

PatternRender(k, m) ==
  CASE k = 1 -> Bold(m.g1)
    [] k = 2 -> Italic(m.g1)
    [] k = 3 -> InlineCode(m.g1)
    [] OTHER -> Link(m.g1, m.g2)

\* the assembly loop without its tests match.index > lastIdx and
\* lastIdx < currentText.length: a slice is pushed even when it is empty
RECURSIVE PatternScanEverySlice(_, _, _, _)
PatternScanEverySlice(k, s, lastIndex, lastIdx) ==
  LET m == PatternExec(k, s, lastIndex)
  IN IF ~IsMatch(m)
     THEN <<PlainText(Slice(s, lastIdx, Len(s)))>>
     ELSE <<PlainText(Slice(s, lastIdx, m.index))>>
          \o <<PatternRender(k, m)>>
          \o PatternScanEverySlice(k, s, m.end, m.end)

\* the exec loop and the assembly loop that follows it, fused: lastIdx is
\* both the regex's lastIndex and the end of the previous match
RECURSIVE PatternScan(_, _, _, _)
PatternScan(k, s, lastIndex, lastIdx) ==
  LET m == PatternExec(k, s, lastIndex)
  IN IF ~IsMatch(m)
     THEN (IF lastIdx < Len(s) THEN <<PlainText(Slice(s, lastIdx, Len(s)))>> ELSE <<>>)
     ELSE (IF m.index > lastIdx THEN <<PlainText(Slice(s, lastIdx, m.index))>> ELSE <<>>)
          \o <<PatternRender(k, m)>>
          \o PatternScan(k, s, m.end, m.end)

\* the for loop without its break: every class that matches is applied
PatternLoopNoBreak(k, s) ==
  LET each == [j \in 1..(PatternCount - k + 1) |->
                 IF IsMatch(PatternExec(k + j - 1, s, 0))
                 THEN PatternScan(k + j - 1, s, 0, 0) ELSE <<>>]
  IN IF Flatten(each) = <<>> THEN <<PlainText(s)>> ELSE Flatten(each)

\* the for loop over patterns, from pattern k on
RECURSIVE PatternLoop(_, _)
PatternLoop(k, s) ==
  IF k > PatternCount THEN <<PlainText(s)>>
  ELSE LET tested == PatternExec(k, s, 0)
       IN IF IsMatch(tested)
          THEN PatternScan(k, s, ResetLastIndex(LastIndexAfter(tested)), 0)
          ELSE PatternLoop(k + 1, s)

parseInlineMarkdown(s) == IF s = <<>> THEN <<>> ELSE PatternLoop(1, s)

----------------------------------------------------------------------------
(* parseMarkdown: lines, list items, line breaks                           *)

\* /^[-*]\s*/: the blank after the marker not required
IsBulletLineNoBlank(line) == Len(line) >= 1 /\ line[1] \in {DASH, STAR}

\* /^[-*]\s+/
IsBulletLine(line) ==
  Len(line) >= 2 /\ line[1] \in {DASH, STAR} /\ line[2] \in Whitespace

\* /^(\d+)\.\s+/: the end offset of the digits, or -1
NumberedDigitsEnd(line) ==
  LET d == RunEndIn(line, 0, Digits)
  IN IF d > 0 /\ CharAt(line, d) = DOT /\ CharAt(line, d + 1) \in Whitespace
     THEN d ELSE -1

\* numbered items labelled with an ordinal that starts at 1
parseLineRenumbered(line) ==
  IF IsBulletLine(line)
  THEN <<ListItem("bullet", BulletGlyph,
                  parseInlineMarkdown(Slice(line, RunEndIn(line, 1, Whitespace), Len(line))))>>
  ELSE LET d == NumberedDigitsEnd(line)
       IN IF d >= 0
          THEN <<ListItem("numbered", <<"1">>,
                          parseInlineMarkdown(
                            Slice(line, RunEndIn(line, d + 1, Whitespace), Len(line))))>>
          ELSE parseInlineMarkdown(line)

\* the remainder of a list line classified again as a line
parseLineNested(line) ==
  IF IsBulletLine(line)
  THEN <<ListItem("bullet", BulletGlyph,
                  parseLineRenumbered(Slice(line, RunEndIn(line, 1, Whitespace), Len(line))))>>
  ELSE LET d == NumberedDigitsEnd(line)
       IN IF d >= 0
          THEN <<ListItem("numbered", Slice(line, 0, d),
                          parseLineRenumbered(
                            Slice(line, RunEndIn(line, d + 1, Whitespace), Len(line))))>>
          ELSE parseInlineMarkdown(line)

parseLine(line) ==
  IF IsBulletLine(line)
  THEN <<ListItem("bullet", BulletGlyph,
                  parseInlineMarkdown(Slice(line, RunEndIn(line, 1, Whitespace), Len(line))))>>
  ELSE LET d == NumberedDigitsEnd(line)
       IN IF d >= 0
          THEN <<ListItem("numbered", Slice(line, 0, d),
                          parseInlineMarkdown(
                            Slice(line, RunEndIn(line, d + 1, Whitespace), Len(line))))>>
          ELSE parseInlineMarkdown(line)

\* lines.forEach with the <br /> pushed after each line instead of before
RECURSIVE parseLinesBreakAfter(_, _)
parseLinesBreakAfter(lines, lineIndex) ==
  IF lineIndex >= Len(lines) THEN <<>>
  ELSE parseLine(lines[lineIndex + 1]) \o <<LineBreak>>
       \o parseLinesBreakAfter(lines, lineIndex + 1)

\* lines.forEach, from line number lineIndex + 1 on
RECURSIVE parseLines(_, _)
parseLines(lines, lineIndex) ==
  IF lineIndex >= Len(lines) THEN <<>>
  ELSE (IF lineIndex > 0 THEN <<LineBreak>> ELSE <<>>)
       \o parseLine(lines[lineIndex + 1])
       \o parseLines(lines, lineIndex + 1)

parseMarkdown(s) == IF s = <<>> THEN <<>> ELSE parseLines(Split(s, NL), 0)

----------------------------------------------------------------------------
(* parseInlineContent: inline math                                         *)

\* does the typesetter throw on this expression
Throws(rej, formula) == formula \in rej

\* /\$([^\$]+)\$/g: an expression may run over a newline
RECURSIVE inlineMathExecAcrossLines(_, _)
inlineMathExecAcrossLines(s, from) ==
  IF from >= Len(s) THEN NoMatch
  ELSE IF IsMatch(DelimitedAt(s, from, <<DOLLAR>>, {DOLLAR}, <<DOLLAR>>))
       THEN DelimitedAt(s, from, <<DOLLAR>>, {DOLLAR}, <<DOLLAR>>)
       ELSE inlineMathExecAcrossLines(s, from + 1)

\* inlineMathRegex.exec(s) with lastIndex = from
RECURSIVE inlineMathExec(_, _)
inlineMathExec(s, from) ==
  IF from >= Len(s) THEN NoMatch
  ELSE IF IsMatch(DelimitedAt(s, from, <<DOLLAR>>, {DOLLAR, NL}, <<DOLLAR>>))
       THEN DelimitedAt(s, from, <<DOLLAR>>, {DOLLAR, NL}, <<DOLLAR>>)
       ELSE inlineMathExec(s, from + 1)

inlineMathNode(rej, m) ==
  LET formula == Trim(m.g1)
  IN IF Throws(rej, formula)
     THEN MathFallback(<<DOLLAR>> \o formula \o <<DOLLAR>>)
     ELSE InlineMathNode(formula)

\* the while loop of parseInlineContent and the remaining text after it
RECURSIVE inlineMathLoop(_, _, _)
inlineMathLoop(s, lastIndex, rej) ==
  LET m == inlineMathExec(s, lastIndex)
  IN IF ~IsMatch(m)
     THEN (IF lastIndex < Len(s) THEN parseMarkdown(Slice(s, lastIndex, Len(s))) ELSE <<>>)
     ELSE (IF m.index > lastIndex THEN parseMarkdown(Slice(s, lastIndex, m.index)) ELSE <<>>)
          \o <<inlineMathNode(rej, m)>>
          \o inlineMathLoop(s, m.end, rej)

\* the while loop alone, the text after the last match forgotten
RECURSIVE inlineMathLoopNoRest(_, _, _)
inlineMathLoopNoRest(s, lastIndex, rej) ==
  LET m == inlineMathExec(s, lastIndex)
  IN IF ~IsMatch(m) THEN <<>>
     ELSE (IF m.index > lastIndex THEN parseMarkdown(Slice(s, lastIndex, m.index)) ELSE <<>>)
          \o <<inlineMathNode(rej, m)>>
          \o inlineMathLoopNoRest(s, m.end, rej)

parseInlineContentNoRest(s, rej) == inlineMathLoopNoRest(s, 0, rej)

parseInlineContent(s, rej) == inlineMathLoop(s, 0, rej)

----------------------------------------------------------------------------
(* Tables: tableRegex, isMarkdownTable, renderMarkdownTable                *)

\* offset of the newline that ends the line holding offset p, or Len(s)
LineEnd(s, p) == RunEnd(s, p, {NL})

\* \|[^\n]+\|\n at offset h: the offset after the newline, or -1
HeaderLineEnd(s, h) ==
  LET e == LineEnd(s, h)
  IN IF CharAt(s, h) = PIPE /\ e < Len(s) /\ e >= h + 3 /\ CharAt(s, e - 1) = PIPE
     THEN e + 1 ELSE -1

\* \|[-:| ]+\|\n at offset h: the offset after the newline, or -1
SeparatorLineEnd(s, h) ==
  LET e == HeaderLineEnd(s, h)
  IN IF e >= 0 /\ RunEndIn(s, h + 1, {DASH, COLON, PIPE, SP}) = e - 1
     THEN e ELSE -1

\* largest offset q in lo..hi with a pipe at q, or -1
RECURSIVE LastPipe(_, _, _)
LastPipe(s, lo, hi) ==
  IF hi < lo THEN -1 ELSE IF CharAt(s, hi) = PIPE THEN hi ELSE LastPipe(s, lo, hi - 1)

\* (?:\|[^\n]+\|\n?)* at offset p: the offset where the greedy repetition stops
RECURSIVE RowLinesEnd(_, _)
RowLinesEnd(s, p) ==
  LET e == LineEnd(s, p)
      q == LastPipe(s, p + 2, e - 1)
  IN IF CharAt(s, p) # PIPE \/ q < 0 THEN p
     ELSE IF q + 1 = e /\ e < Len(s) THEN RowLinesEnd(s, e + 1)
     ELSE q + 1

\* the header, separator and row lines starting at offset h: end offset or -1
TableBodyEnd(s, h) ==
  LET e1 == HeaderLineEnd(s, h)
      e2 == IF e1 < 0 THEN -1 ELSE SeparatorLineEnd(s, e1)
  IN IF e2 < 0 THEN -1 ELSE RowLinesEnd(s, e2)

\* tableRegex at offset i, the alternatives of (?:^|\n) tried in order
TableAt(s, i) ==
  LET viaStart == IF i = 0 THEN TableBodyEnd(s, 0) ELSE -1
      viaNewline == IF CharAt(s, i) = NL THEN TableBodyEnd(s, i + 1) ELSE -1
      e == IF viaStart >= 0 THEN viaStart ELSE viaNewline
  IN IF e >= 0 THEN [index |-> i, end |-> e, g1 |-> Slice(s, i, e), groups |-> 1]
     ELSE NoMatch

\* tableRegex.exec(s) with lastIndex = from
RECURSIVE tableRegexExec(_, _)
tableRegexExec(s, from) ==
  IF from >= Len(s) THEN NoMatch
  ELSE IF IsMatch(TableAt(s, from)) THEN TableAt(s, from)
  ELSE tableRegexExec(s, from + 1)

\* /^\|?\s*[-:]+\s*\|/.test(l)
SeparatorTestFrom(l, p) ==
  LET a == RunEndIn(l, p, Whitespace)
      b == RunEndIn(l, a, {DASH, COLON})
      c == RunEndIn(l, b, Whitespace)
  IN b > a /\ CharAt(l, c) = PIPE

SeparatorTest(l) ==
  (CharAt(l, 0) = PIPE /\ SeparatorTestFrom(l, 1)) \/ SeparatorTestFrom(l, 0)

isMarkdownTable(t) ==
  LET lines == Split(Trim(t), NL)
  IN /\ Len(lines) >= 2
     /\ Includes(lines[1], PIPE)
     /\ \E k \in 1..Len(lines) : SeparatorTest(lines[k])

\* .filter((x) => x.trim())
RECURSIVE NonBlank(_)
NonBlank(seq) ==
  IF seq = <<>> THEN <<>>
  ELSE (IF Trim(Head(seq)) # <<>> THEN <<Head(seq)>> ELSE <<>>) \o NonBlank(Tail(seq))

\* the cells without .filter((c) => c.trim())
parseCellsKeepEmpty(line) ==
  LET kept == Split(line, PIPE)
  IN [k \in 1..Len(kept) |-> Trim(kept[k])]

parseCells(line) ==
  LET kept == NonBlank(Split(line, PIPE))
  IN [k \in 1..Len(kept) |-> Trim(kept[k])]

\* the rows taken from lines.slice(1): the separator line kept as a row
renderMarkdownTableKeepSeparator(t) ==
  LET lines == NonBlank(Split(Trim(t), NL))
  IN IF Len(lines) < 2 THEN TableText(t)
     ELSE Table(parseCells(lines[1]),
                [k \in 1..(Len(lines) - 1) |-> parseCells(lines[k + 1])])

renderMarkdownTable(t) ==
  LET lines == NonBlank(Split(Trim(t), NL))
  IN IF Len(lines) < 2 THEN TableText(t)
     ELSE Table(parseCells(lines[1]),
                [k \in 1..(Len(lines) - 2) |-> parseCells(lines[k + 2])])

----------------------------------------------------------------------------
(* parseContent: block math, then tables, then inline content              *)

DD == <<DOLLAR, DOLLAR>>

\* text.split(/(\$\$[\s\S]*?\$\$)/g)
RECURSIVE blockParts(_)
blockParts(s) ==
  LET i == FirstAt(s, DD, 0)
      j == IF i < 0 THEN -1 ELSE FirstAt(s, DD, i + 2)
  IN IF j < 0 THEN <<s>>
     ELSE <<Slice(s, 0, i), Slice(s, i, j + 2)>> \o blockParts(Slice(s, j + 2, Len(s)))

\* the formula taken as part.slice(2, -2), not trimmed
blockMathNodeNoTrim(rej, part) ==
  LET formula == JsSlice(part, 2, -2)
  IN IF Throws(rej, formula) THEN MathFallback(part) ELSE BlockMathNode(formula)

blockMathNode(rej, part) ==
  LET formula == Trim(JsSlice(part, 2, -2))
  IN IF Throws(rej, formula) THEN MathFallback(part) ELSE BlockMathNode(formula)

\* the loop with the text before a block pushed after the block
RECURSIVE tableLoopTextAfter(_, _, _)
tableLoopTextAfter(part, lastIdx, rej) ==
  LET m == tableRegexExec(part, lastIdx)
  IN IF ~IsMatch(m)
     THEN (IF lastIdx < Len(part)
           THEN parseInlineContent(Slice(part, lastIdx, Len(part)), rej) ELSE <<>>)
     ELSE (IF isMarkdownTable(m.g1) THEN <<renderMarkdownTable(m.g1)>>
           ELSE parseInlineContent(m.g1, rej))
          \o (IF m.index > lastIdx
              THEN parseInlineContent(Slice(part, lastIdx, m.index), rej) ELSE <<>>)
          \o tableLoopTextAfter(part, m.end, rej)

\* the loop with a block that fails isMarkdownTable left out of the output
RECURSIVE tableLoopDropRejected(_, _, _)
tableLoopDropRejected(part, lastIdx, rej) ==
  LET m == tableRegexExec(part, lastIdx)
  IN IF ~IsMatch(m)
     THEN (IF lastIdx < Len(part)
           THEN parseInlineContent(Slice(part, lastIdx, Len(part)), rej) ELSE <<>>)
     ELSE (IF m.index > lastIdx
           THEN parseInlineContent(Slice(part, lastIdx, m.index), rej) ELSE <<>>)
          \o (IF isMarkdownTable(m.g1) THEN <<renderMarkdownTable(m.g1)>> ELSE <<>>)
          \o tableLoopDropRejected(part, m.end, rej)

\* the while loop over tableRegex matches and the remaining text after it
RECURSIVE tableLoop(_, _, _)
tableLoop(part, lastIdx, rej) ==
  LET m == tableRegexExec(part, lastIdx)
  IN IF ~IsMatch(m)
     THEN (IF lastIdx < Len(part)
           THEN parseInlineContent(Slice(part, lastIdx, Len(part)), rej) ELSE <<>>)
     ELSE (IF m.index > lastIdx
           THEN parseInlineContent(Slice(part, lastIdx, m.index), rej) ELSE <<>>)
          \o (IF isMarkdownTable(m.g1) THEN <<renderMarkdownTable(m.g1)>>
              ELSE parseInlineContent(m.g1, rej))
          \o tableLoop(part, m.end, rej)

\* the test of line 117 left out: a region goes on to the later stages
parsePartScanRegions(part, rej) == tableLoop(part, 0, rej)

parsePart(part, rej) ==
  IF StartsWith(part, DD) /\ EndsWith(part, DD)
  THEN <<blockMathNode(rej, part)>>
  ELSE tableLoop(part, 0, rej)

\* elements kept in one array shared by every call
SharedElements(left) == left

\* const elements = [] at entry: a fresh array, whatever an earlier call left
NewElements(left) == <<>>

RECURSIVE parseParts(_, _)
parseParts(parts, rej) ==
  IF parts = <<>> THEN <<>>
  ELSE parsePart(Head(parts), rej) \o parseParts(Tail(parts), rej)

parseContent(s, rej, left) == NewElements(left) \o parseParts(blockParts(s), rej)

----------------------------------------------------------------------------
(* Inputs                                                                  *)

MaxLen == 4
MaxLines == 3
MaxTokens == 4
MaxCalls == 3
MaxScanLen == 3
MaxScanLines == 3
MaxTableLines == 4
MaxMathLen == 6

Alphabet == {"a", SP, NL, DOLLAR, STAR, DASH, PIPE, "1", DOT}

CharInputs == UNION {[1..n -> Alphabet] : n \in 0..MaxLen}

RECURSIVE Join(_, _)
Join(seqs, sep) ==
  IF seqs = <<>> THEN <<>>
  ELSE IF Len(seqs) = 1 THEN Head(seqs)
  ELSE Head(seqs) \o sep \o Join(Tail(seqs), sep)

\* lines a chat message is built from
LineKit ==
  { <<PIPE, "a", PIPE>>, <<PIPE, DASH, PIPE>>, <<PIPE, SP, PIPE>>,
    <<PIPE, "a", PIPE, PIPE, "b", PIPE, "c">>, <<"a", PIPE, "b">>,
    <<DASH, PIPE, DASH>>, <<DASH, SP, "a">>, <<"1", DOT, SP, "a">>,
    <<DOLLAR, "a", DOLLAR>>, <<>> }

LineInputs ==
  UNION { {Join(ls, <<NL>>), Join(ls, <<NL>>) \o <<NL>>} :
          ls \in UNION {[1..n -> LineKit] : n \in 1..MaxLines} }

\* pieces of emphasis markup a line is built from
TokenKit ==
  { <<"a">>, <<SP>>, <<STAR>>, <<STAR, STAR>>, <<TICK>>, <<LBRACK>>,
    <<RBRACK, LPAREN>>, <<RPAREN>>, <<"b">> }

TokenInputs == {Flatten(ts) : ts \in UNION {[1..n -> TokenKit] : n \in 0..MaxTokens}}

ExBoldAndText ==
  <<STAR, STAR, "b", "o", "l", "d", SP, STAR, "a", "n", "d", STAR, SP,
    "t", "e", "x", "t", STAR, STAR>>

ExPipeTable ==
  <<"a", SP, PIPE, SP, "b", NL, DASH, DASH, DASH, PIPE, DASH, DASH, DASH, NL,
    "1", SP, PIPE, SP, "2", NL>>

ExUnterminated ==
  <<DOLLAR, DOLLAR, "u", "n", "t", "e", "r", "m", "i", "n", "a", "t", "e", "d">>

ExOneTwo == <<DASH, SP, "o", "n", "e", NL, DASH, SP, "t", "w", "o">>

ExThreeThree == <<"3", DOT, SP, "a", NL, "3", DOT, SP, "b">>

\* a bullet line and a numbered line that hold each other's marker, and
\* three lines that are no list items
ExPriority ==
  <<DASH, SP, "1", DOT, SP, "x", NL, "1", DOT, SP, DASH, SP, "x", NL,
    DASH, "x", NL, "1", DOT, "x", NL, STAR, "y", STAR>>

Examples ==
  {ExBoldAndText, ExPipeTable, ExUnterminated, ExOneTwo, ExThreeThree, ExPriority}

Inputs == CharInputs \cup LineInputs \cup Examples

\* two italic spans, the first at the second character, blanks around them
ExTwoSpans == <<SP, STAR, "a", STAR, SP, "b", SP, SP, STAR, "c", STAR, SP>>

\* two bold spans side by side, then an unclosed one
ExTwoBold ==
  <<STAR, STAR, "a", STAR, STAR, STAR, STAR, "b", STAR, STAR, STAR, STAR, "c">>

LineTexts == TokenInputs \cup {ExBoldAndText, ExTwoSpans, ExTwoBold}

\* lines a message with tables is built from
TableLineKit ==
  { <<PIPE, "a", PIPE>>, <<PIPE, DASH, PIPE>>, <<PIPE, SP, PIPE>>,
    <<PIPE, "b", PIPE, PIPE, "c", PIPE, "d">>, <<"x">>,
    <<DOLLAR, DOLLAR, "m", DOLLAR, DOLLAR>> }

\* rows with fewer and with more cells than the header, a blank line after
ExRagged ==
  <<PIPE, "e", PIPE, "f", PIPE, NL, PIPE, COLON, DASH, PIPE, DASH, PIPE, NL,
    PIPE, "a", PIPE, NL, PIPE, "b", PIPE, PIPE, "c", PIPE, "d", PIPE, NL, NL, "x">>

\* text before, between and after two tables
ExTwoTables ==
  <<"x", NL, PIPE, "a", PIPE, NL, PIPE, DASH, PIPE, NL, "y", NL,
    PIPE, "b", PIPE, NL, PIPE, DASH, PIPE, NL, PIPE, "c", PIPE, NL, "z">>

TableInputs ==
  UNION { {Join(ls, <<NL>>), Join(ls, <<NL>>) \o <<NL>>} :
          ls \in UNION {[1..n -> TableLineKit] : n \in 1..MaxTableLines} }
  \cup {ExTwoTables, ExRagged}

\* messages of text and dollar signs
MathAlphabet == {"a", SP, NL, DOLLAR}

\* two block expressions, the second over two lines, text between them
ExTwoBlocks ==
  <<DOLLAR, DOLLAR, "a", DOLLAR, DOLLAR, "x", DOLLAR, DOLLAR, NL, "b", SP,
    DOLLAR, DOLLAR>>

\* three inline expressions and a pair of dollars that spans a newline
ExInlineRun ==
  <<DOLLAR, SP, "a", DOLLAR, "x", DOLLAR, "b", DOLLAR, DOLLAR, "c", DOLLAR,
    SP, DOLLAR, "d", NL, "e", DOLLAR>>

MathInputs ==
  UNION {[1..n -> MathAlphabet] : n \in 0..MaxMathLen} \cup {ExTwoBlocks, ExInlineRun}

\* the expressions the typesetter may throw on
RejectedChoices == {{}, {<<"a">>, <<>>}}

----------------------------------------------------------------------------
(* The state machine                                                       *)

ScanIdle == [re |-> "none", subject |-> <<>>, lastIndex |-> 0, matches |-> <<>>,
             exec |-> <<>>, done |-> TRUE]

\* no sendChatMessage call in progress
SseIdle == [state |-> "idle", body |-> <<>>, chunks |-> <<>>, buffer |-> <<>>,
            dispatched |-> <<>>, pending |-> <<>>]

\* useState(...) of App, a session open; no handler in progress
AppIdle == [isLoading |-> FALSE, statusMessage |-> "null", messages |-> <<>>,
            fileInfo |-> FALSE, pc |-> "idle", runs |-> 0]

Init ==
  /\ text \in Inputs
  /\ rejected \in RejectedChoices
  /\ (rejected # {} => Includes(text, DOLLAR))
  /\ elements = <<>>
  /\ rendered = "pending"
  /\ log = <<>>
  /\ scan = ScanIdle
  /\ sse = SseIdle
  /\ app = AppIdle

\* the component without if (!children) return null
MarkdownLatexNoGuard ==
  /\ rendered = "pending"
  /\ rendered' = "span"
  /\ elements' = parseContent(text, rejected, elements)
  /\ log' = Append(log, [input |-> text, output |-> elements'])
  /\ UNCHANGED <<text, rejected, scan, sse, app>>

\* export function MarkdownLatex({ children })
MarkdownLatex ==
  /\ rendered = "pending"
  /\ rendered' = IF text = <<>> THEN "null" ELSE "span"
  /\ elements' = IF text = <<>> THEN elements ELSE parseContent(text, rejected, elements)
  /\ log' = Append(log, [input |-> text, output |-> IF text = <<>> THEN <<>> ELSE elements'])
  /\ UNCHANGED <<text, rejected, scan, sse, app>>

Next == MarkdownLatex

Spec == Init /\ [][Next]_vars

----------------------------------------------------------------------------
(* One line handed to parseInlineMarkdown                                  *)

InitLine ==
  /\ text \in LineTexts
  /\ rejected = {}
  /\ elements = <<>>
  /\ rendered = "pending"
  /\ log = <<>>
  /\ scan = ScanIdle
  /\ sse = SseIdle
  /\ app = AppIdle

ResolveLine ==
  /\ rendered = "pending"
  /\ rendered' = "line"
  /\ elements' = parseInlineMarkdown(text)
  /\ UNCHANGED <<text, rejected, log, scan, sse, app>>

NextLine == ResolveLine

SpecLine == InitLine /\ [][NextLine]_vars

----------------------------------------------------------------------------
(* One text run handed to parseMarkdown                                    *)

InitRun ==
  /\ text \in Inputs
  /\ rejected = {}
  /\ elements = <<>>
  /\ rendered = "pending"
  /\ log = <<>>
  /\ scan = ScanIdle
  /\ sse = SseIdle
  /\ app = AppIdle

FormatRun ==
  /\ rendered = "pending"
  /\ rendered' = "run"
  /\ elements' = parseMarkdown(text)
  /\ UNCHANGED <<text, rejected, log, scan, sse, app>>

NextRun == FormatRun

SpecRun == InitRun /\ [][NextRun]_vars

----------------------------------------------------------------------------
(* A chat: the component rendered again and again, message after message   *)

CallInputs ==
  { <<>>, <<"a">>, <<STAR, "a", STAR>>, <<DOLLAR, "a", DOLLAR>>,
    <<DOLLAR, DOLLAR, "a", DOLLAR, DOLLAR>>, <<DASH, SP, "a", NL, "b">>,
    <<PIPE, "a", PIPE, NL, PIPE, DASH, PIPE, NL>> }

InitCalls ==
  /\ text \in CallInputs
  /\ rejected \in RejectedChoices
  /\ elements = <<>>
  /\ rendered = "pending"
  /\ log = <<>>
  /\ scan = ScanIdle
  /\ sse = SseIdle
  /\ app = AppIdle

NewMessage ==
  /\ rendered # "pending"
  /\ Len(log) < MaxCalls
  /\ \E s \in CallInputs : text' = s
  /\ rendered' = "pending"
  /\ UNCHANGED <<rejected, elements, log, scan, sse, app>>

NextCalls == MarkdownLatex \/ NewMessage

SpecCalls == InitCalls /\ [][NextCalls]_vars

----------------------------------------------------------------------------
(* A message made of table lines, text lines and block math                *)

InitTable ==
  /\ text \in TableInputs
  /\ rejected = {}
  /\ elements = <<>>
  /\ rendered = "pending"
  /\ log = <<>>
  /\ scan = ScanIdle
  /\ sse = SseIdle
  /\ app = AppIdle

NextTable == MarkdownLatex

SpecTable == InitTable /\ [][NextTable]_vars

----------------------------------------------------------------------------
(* A message of text and math, the typesetter accepting every expression   *)

InitMath ==
  /\ text \in MathInputs
  /\ rejected = {}
  /\ elements = <<>>
  /\ rendered = "pending"
  /\ log = <<>>
  /\ scan = ScanIdle
  /\ sse = SseIdle
  /\ app = AppIdle

NextMath == MarkdownLatex

SpecMath == InitMath /\ [][NextMath]_vars

----------------------------------------------------------------------------
(* The three scanning loops, one exec per step                             *)

ScanKinds == {"table", "inlineMath", "bold", "italic", "code", "link"}

PatternIndex(re) ==
  CASE re = "bold" -> 1 [] re = "italic" -> 2 [] re = "code" -> 3 [] OTHER -> 4

\* regex.exec(subject) of the loop's global regex
Exec(re, subject, lastIndex) ==
  CASE re = "table" -> tableRegexExec(subject, lastIndex)
    [] re = "inlineMath" -> inlineMathExec(subject, lastIndex)
    [] OTHER -> PatternExec(PatternIndex(re), subject, lastIndex)

ScanLines ==
  { <<STAR, STAR, "a", STAR, STAR, SP, STAR, STAR, "b", STAR, STAR>>,
    <<STAR, "a", STAR, STAR, "b", STAR>>,
    <<TICK, "a", TICK, "b", TICK, "c", TICK>>,
    <<LBRACK, "a", RBRACK, LPAREN, "u", RPAREN, LBRACK, "b", RBRACK, LPAREN, "v", RPAREN>>,
    <<DOLLAR, "a", DOLLAR, SP, DOLLAR, "b", DOLLAR, DOLLAR, "c", DOLLAR>>,
    <<PIPE, "a", PIPE, NL, PIPE, DASH, PIPE, NL, NL, PIPE, "b", PIPE, NL,
      PIPE, DASH, PIPE, NL, PIPE, "c", PIPE>> }

ScanAlphabet == {"a", DOLLAR, STAR, NL}

ScanLineKit == {<<PIPE, "a", PIPE>>, <<PIPE, DASH, PIPE>>, <<"a">>, <<>>}

ScanInputs ==
  UNION {[1..n -> ScanAlphabet] : n \in 0..MaxScanLen}
  \cup UNION { {Join(ls, <<NL>>), Join(ls, <<NL>>) \o <<NL>>} :
               ls \in UNION {[1..n -> ScanLineKit] : n \in 1..MaxScanLines} }
  \cup ScanLines \cup Examples

InitScan ==
  /\ text = <<>>
  /\ rejected = {}
  /\ elements = <<>>
  /\ rendered = "idle"
  /\ log = <<>>
  /\ scan = ScanIdle
  /\ sse = SseIdle
  /\ app = AppIdle

\* a message arrives; one of its loops is followed exec by exec.  What exec
\* returns depends on the subject and lastIndex alone: scan.exec holds it for
\* every lastIndex of the subject
Receive ==
  /\ rendered = "idle"
  /\ rendered' = "pending"
  /\ \E s \in ScanInputs : \E re \in ScanKinds :
       /\ text' = s
       /\ scan' = [re |-> re, subject |-> s, lastIndex |-> 0, matches |-> <<>>,
                   exec |-> [i \in 0..Len(s) |-> Exec(re, s, i)], done |-> FALSE]
  /\ UNCHANGED <<rejected, elements, log, sse, app>>

\* while ((match = regex.exec(subject)) !== null) { ... }
ExecStep ==
  /\ ~scan.done
  /\ LET m == scan.exec[scan.lastIndex]
     IN scan' = IF IsMatch(m)
                THEN [scan EXCEPT !.lastIndex = LastIndexAfter(m),
                                  !.matches = Append(@, m)]
                ELSE [scan EXCEPT !.lastIndex = LastIndexAfter(m), !.done = TRUE]
  /\ UNCHANGED <<text, rejected, elements, rendered, log, sse, app>>

NextScan == Receive \/ ExecStep \/ MarkdownLatex

\* a loop, once entered, is run on: nothing in the call suspends it
SpecScan == InitScan /\ [][NextScan]_vars /\ WF_vars(ExecStep)

----------------------------------------------------------------------------
(* Helpers of the properties                                               *)

Types(nodes) == {nodes[i].type : i \in DOMAIN nodes}

CountType(nodes, t) == Cardinality({i \in DOMAIN nodes : nodes[i].type = t})

\* the markup a node of parseInlineMarkdown was cut from
InlineSource(n) ==
  CASE n.type = "Bold" -> <<STAR, STAR>> \o n.text \o <<STAR, STAR>>
    [] n.type = "Italic" -> <<STAR>> \o n.text \o <<STAR>>
    [] n.type = "InlineCode" -> <<TICK>> \o n.text \o <<TICK>>
    [] n.type = "Link" -> <<LBRACK>> \o n.text \o <<RBRACK, LPAREN>> \o n.url \o <<RPAREN>>
    [] OTHER -> n.text

InlineSources(nodes) == Flatten([i \in DOMAIN nodes |-> InlineSource(nodes[i])])

\* does w occur in s
Occurs(s, w) == FirstAt(s, w, 0) >= 0

----------------------------------------------------------------------------
(* C1: a line **...** whose content holds single-asterisk spans, such as   *)
(* "**bold *and* text**", resolves to exactly one Bold node whose content  *)
(* is the literal inner text; no Italic node is produced.                  *)

BoldInner(line) == Slice(line, 2, Len(line) - 2)

IsBoldOverSpans(line) ==
  /\ Len(line) >= 7
  /\ StartsWith(line, <<STAR, STAR>>) /\ EndsWith(line, <<STAR, STAR>>)
  /\ LET inner == BoldInner(line)
     IN /\ Includes(inner, STAR)
        /\ ~Occurs(inner, <<STAR, STAR>>)
        /\ Head(inner) # STAR /\ inner[Len(inner)] # STAR

C1_BoldOverSpans ==
  (rendered = "line" /\ IsBoldOverSpans(text)) => elements = <<Bold(BoldInner(text))>>

----------------------------------------------------------------------------
(* C2: exactly one pattern class is applied to a line, the first of bold,  *)
(* italic, inline code, link that matches anywhere in it: the nodes that   *)
(* are not PlainText all have that class's type, and everything else,      *)
(* markup of the later classes included, stays literal in PlainText.       *)

HasMatch(k, line) == \E i \in 0..(Len(line) - 1) : IsMatch(PatternAt(k, line, i))

FirstClass(line) ==
  IF \E k \in 1..PatternCount : HasMatch(k, line)
  THEN CHOOSE k \in 1..PatternCount :
         HasMatch(k, line) /\ \A j \in 1..(k - 1) : ~HasMatch(j, line)
  ELSE 0

C2_ExclusiveFirstMatch ==
  rendered = "line" =>
    LET c == FirstClass(text)
    IN /\ c = 0 => Types(elements) \subseteq {"PlainText"}
       /\ c # 0 => /\ PatternType(c) \in Types(elements)
                   /\ Types(elements) \subseteq {"PlainText", PatternType(c)}
       /\ InlineSources(elements) = text

\* a line where a later class would match too
C2_Witness ==
  /\ rendered = "line"
  /\ FirstClass(text) = 2
  /\ HasMatch(3, text)
  /\ CountType(elements, "Italic") >= 1

----------------------------------------------------------------------------
(* C3: a header line with a pipe, a separator line of pipes, dashes,       *)
(* colons and blanks, and further pipe lines make exactly one Table node,  *)
(* also when the lines neither begin nor end with a pipe:                  *)
(* "a | b\n---|---\n1 | 2\n" gives headers [a, b] and rows [[1, 2]].       *)

\* the lines of a block, the newline that ends the last line set aside
BlockLines(s) ==
  IF s # <<>> /\ s[Len(s)] = NL THEN Split(Slice(s, 0, Len(s) - 1), NL) ELSE Split(s, NL)

IsSeparatorLine(l) ==
  /\ l # <<>>
  /\ \A k \in 1..Len(l) : l[k] \in {PIPE, DASH, COLON, SP}
  /\ Includes(l, DASH)

IsPipeBlock(s) ==
  LET ls == BlockLines(s)
  IN /\ Len(ls) >= 2
     /\ Includes(ls[1], PIPE) /\ parseCells(ls[1]) # <<>>
     /\ IsSeparatorLine(ls[2]) /\ Includes(ls[2], PIPE)
     /\ \A k \in 3..Len(ls) : Includes(ls[k], PIPE)

C3_PipeBlockIsTable ==
  (rendered = "span" /\ IsPipeBlock(text)) =>
    /\ CountType(elements, "Table") = 1
    /\ text = ExPipeTable =>
         elements = <<Table(<<<<"a">>, <<"b">>>>, <<<<<<"1">>, <<"2">>>>>>)>>

----------------------------------------------------------------------------
(* C4: when an opening $$ has no closing $$ later in the string (as in     *)
(* "$$unterminated", "$$" and "$$$"), the output holds no BlockMath node   *)
(* and the $$ characters appear as plain content.                          *)

IsUnterminated(s) ==
  LET i == FirstAt(s, DD, 0)
  IN i >= 0 /\ FirstAt(s, DD, i + 2) < 0

C4_UnterminatedIsPlain ==
  (rendered = "span" /\ IsUnterminated(text)) =>
    /\ Types(elements) \cap {"BlockMath", "MathFallback"} = {}
    /\ \E i \in DOMAIN elements :
         elements[i].type = "PlainText" /\ Occurs(elements[i].text, DD)

----------------------------------------------------------------------------
(* C5: an input with none of $ * backquote [ | gives exactly one PlainText  *)
(* node equal to the input, newlines and leading "- " or "1. " included.   *)

HasNoSpecials(s) == \A k \in 1..Len(s) : s[k] \notin {DOLLAR, STAR, TICK, LBRACK, PIPE}

C5_PlainInputOneNode ==
  (rendered = "span" /\ HasNoSpecials(text)) => elements = <<PlainText(text)>>

\* C5, amended: a non-empty input with none of $ * backquote [ |, with no
\* newline, and that does not begin with a list marker (a dash and a blank,
\* or digits, a dot and a blank) gives exactly one PlainText node equal to it.
BeginsWithListMarker(s) ==
  \/ Len(s) >= 2 /\ s[1] = DASH /\ s[2] = SP
  \/ \E d \in 1..Len(s) :
       /\ \A k \in 1..d : s[k] \in Digits
       /\ Len(s) >= d + 2 /\ s[d + 1] = DOT /\ s[d + 2] = SP

C5_PlainLineOneNode ==
  (rendered = "span" /\ HasNoSpecials(text) /\ ~Includes(text, NL)
     /\ ~BeginsWithListMarker(text))
  => elements = <<PlainText(text)>>

\* a plain line that holds a dash, a digit, a dot and a blank
C5_Witness ==
  /\ rendered = "span"
  /\ text \in {<<"a", DASH, SP, "1">>, <<"1", DOT, "a", SP>>, <<DASH, "1", DOT, SP>>}
  /\ elements = <<PlainText(text)>>

----------------------------------------------------------------------------
(* C6: when the typesetter fails on an expression, its node is replaced by *)
(* a code-styled literal that reproduces the delimited source text exactly *)
(* as written, inner whitespace included; the literal is never empty and   *)
(* every other node is the same as when the typesetter succeeds.           *)

IsMath(n) == n.type \in {"BlockMath", "InlineMath"}

Delimiter(n) == IF n.type = "BlockMath" THEN DD ELSE <<DOLLAR>>

\* t is the source text of the math node n: n's delimiters around content
\* that trims to n's expression, found as written in the input
IsSourceOf(t, n, input) ==
  LET d == Delimiter(n)
  IN /\ StartsWith(t, d) /\ EndsWith(t, d)
     /\ Trim(JsSlice(t, Len(d), 0 - Len(d))) = n.expression
     /\ Occurs(input, t)

C6_FallbackKeepsSource ==
  rendered = "span" =>
    LET typeset == parseContent(text, {}, <<>>)
    IN /\ Len(elements) = Len(typeset)
       /\ \A i \in DOMAIN typeset :
            IF IsMath(typeset[i]) /\ typeset[i].expression \in rejected
            THEN /\ elements[i].type = "MathFallback"
                 /\ IsSourceOf(elements[i].text, typeset[i], text)
            ELSE elements[i] = typeset[i]

----------------------------------------------------------------------------
(* C7: for an input with no recognized table, the leaf text of the output, *)
(* concatenated in order, is the input less its recognized delimiter       *)
(* characters; no other character, whitespace included, is removed.        *)

InlineLeaf(n) == IF n.type = "Link" THEN n.text \o n.url ELSE n.text

\* a bullet item is drawn with its glyph in place of the marker, a
\* delimiter; a numbered item shows the digits of the line
NodeLeaf(n) ==
  CASE n.type = "ListItem" ->
         (IF n.kind = "numbered" THEN n.label ELSE <<>>)
         \o Flatten([i \in DOMAIN n.children |-> InlineLeaf(n.children[i])])
    [] n.type \in {"BlockMath", "InlineMath"} -> n.expression
    [] n.type = "LineBreak" -> <<NL>>
    [] n.type = "Table" -> <<>>
    [] OTHER -> InlineLeaf(n)

LeafText(nodes) == Flatten([i \in DOMAIN nodes |-> NodeLeaf(nodes[i])])

DelimiterChars == {DOLLAR, STAR, TICK, LBRACK, RBRACK, LPAREN, RPAREN, DASH, DOT}

\* leaf, from its character j on, is what is left of s, from its character
\* i on, when only characters of the set gone are taken out
RECURSIVE LeftAfterRemoving(_, _, _, _, _)
LeftAfterRemoving(leaf, j, s, i, gone) ==
  IF i > Len(s) THEN j > Len(leaf)
  ELSE \/ j <= Len(leaf) /\ s[i] = leaf[j] /\ LeftAfterRemoving(leaf, j + 1, s, i + 1, gone)
       \/ s[i] \in gone /\ LeftAfterRemoving(leaf, j, s, i + 1, gone)

----------------------------------------------------------------------------
(* C10: a text run of n lines gives the nodes of line 1, a LineBreak, the  *)
(* nodes of line 2, ..., with exactly n-1 LineBreak nodes, none after the  *)
(* last line; "- one\n- two" gives a bullet item "one", one LineBreak and  *)
(* a bullet item "two".                                                    *)

NewlineCount(s) == Cardinality({k \in 1..Len(s) : s[k] = NL})

C10_LineBreaksBetweenLines ==
  (rendered = "run" /\ text # <<>>) =>
    LET lines == Split(text, NL)
        perLine == [k \in 1..Len(lines) |-> parseLine(lines[k])]
    IN /\ Len(lines) = NewlineCount(text) + 1
       /\ CountType(elements, "LineBreak") = Len(lines) - 1
       /\ elements = Join(perLine, <<LineBreak>>)
       /\ text = ExOneTwo =>
            elements = <<ListItem("bullet", BulletGlyph, <<PlainText(<<"o", "n", "e">>)>>),
                         LineBreak,
                         ListItem("bullet", BulletGlyph, <<PlainText(<<"t", "w", "o">>)>>)>>

C10_Witness ==
  /\ rendered = "run"
  /\ text = ExOneTwo
  /\ CountType(elements, "LineBreak") = 1
  /\ elements[Len(elements)].type = "ListItem"

----------------------------------------------------------------------------
(* C8: every scanning loop (tables, inline math, emphasis) consumes only   *)
(* non-empty matches, so its scan position strictly increases and stays    *)
(* within the text until the loop ends; the loops end, and the pipeline    *)
(* returns a node sequence for every input.                                *)

NodeTypes ==
  {"PlainText", "Bold", "Italic", "InlineCode", "Link", "BlockMath", "InlineMath",
   "MathFallback", "LineBreak", "ListItem", "Table", "TableText"}

IsNodeSequence(nodes) ==
  /\ DOMAIN nodes = 1..Len(nodes)
  /\ \A i \in DOMAIN nodes : nodes[i].type \in NodeTypes

ExecAdvances ==
  (~scan.done /\ ~scan'.done) =>
    /\ scan'.lastIndex > scan.lastIndex
    /\ scan'.lastIndex <= Len(scan.subject)
    /\ LET m == scan'.matches[Len(scan'.matches)]
       IN m.index >= scan.lastIndex /\ m.end > m.index /\ m.end = scan'.lastIndex

C8_ScansProgressAndEnd ==
  /\ [][ExecAdvances]_scan
  /\ [](rendered # "pending" => IsNodeSequence(elements))
  /\ (~scan.done) ~> scan.done

\* a loop that consumed two matches and ended, the pipeline returned
C8_Witness ==
  /\ scan.done
  /\ Len(scan.matches) >= 2
  /\ rendered = "span"

----------------------------------------------------------------------------
(* C9: the output for an input depends on that input alone: two calls with *)
(* the same input, whatever calls came between them, return the same node  *)
(* sequence, and no scan position outlives a call.                         *)

----------------------------------------------------------------------------
(* C11: the pipeline applied to the empty string returns the empty node    *)
(* sequence, and the component renders nothing for it.                     *)

C11_EmptyInputNoNodes ==
  (rendered # "pending" /\ text = <<>>) =>
    /\ parseContent(text, rejected, <<>>) = <<>>
    /\ rendered = "null"
    /\ elements = <<>>

C11_Witness ==
  /\ text = <<>>
  /\ rendered = "null"
  /\ Len(log) = 1
  /\ log[1].output = <<>>

----------------------------------------------------------------------------
(* C12: a line that begins with an integer, a dot and whitespace gives a   *)
(* ListItem whose label is the digit string of that line, whatever the     *)
(* item's position and the labels of the other lines: "3. a" and "3. b"    *)
(* on consecutive lines both carry the label 3.                            *)

\* the nodes of each line: the output cut at its LineBreak nodes
RECURSIVE NodeGroups(_)
NodeGroups(nodes) ==
  LET brk == {i \in DOMAIN nodes : nodes[i] = LineBreak}
  IN IF brk = {} THEN <<nodes>>
     ELSE LET b == CHOOSE i \in brk : \A j \in brk : i <= j
          IN <<SubSeq(nodes, 1, b - 1)>> \o NodeGroups(SubSeq(nodes, b + 1, Len(nodes)))

\* the line begins with d digits, a dot and whitespace
IsNumberedLine(line, d) ==
  /\ d >= 1 /\ Len(line) >= d + 2
  /\ \A k \in 1..d : line[k] \in Digits
  /\ line[d + 1] = DOT /\ line[d + 2] \in Whitespace

C12_NumberedLabelIsLiteral ==
  (rendered = "run" /\ text # <<>>) =>
    LET lines == Split(text, NL)
        groups == NodeGroups(elements)
    IN /\ Len(groups) = Len(lines)
       /\ \A k \in DOMAIN lines : \A d \in 1..Len(lines[k]) :
            IsNumberedLine(lines[k], d) =>
              /\ Len(groups[k]) = 1
              /\ groups[k][1].type = "ListItem"
              /\ groups[k][1].kind = "numbered"
              /\ groups[k][1].label = SubSeq(lines[k], 1, d)

C12_Witness ==
  /\ rendered = "run"
  /\ text = ExThreeThree
  /\ Len(elements) = 3
  /\ elements[1].label = <<"3">>
  /\ elements[3].label = <<"3">>

----------------------------------------------------------------------------
(* C13: the label of a bullet ListItem is the bullet character of its      *)
(* source line: a line that starts with "- " gives the label "-", a line   *)
(* that starts with "* " the label "*".                                    *)

IsBulletMarked(line) ==
  Len(line) >= 2 /\ line[1] \in {DASH, STAR} /\ line[2] \in Whitespace

C13_BulletLabelIsLiteral ==
  (rendered = "run" /\ text # <<>>) =>
    LET lines == Split(text, NL)
        groups == NodeGroups(elements)
    IN \A k \in DOMAIN lines :
         IsBulletMarked(lines[k]) =>
           /\ Len(groups[k]) = 1
           /\ groups[k][1].type = "ListItem"
           /\ groups[k][1].label = <<lines[k][1]>>

----------------------------------------------------------------------------
(* Helpers of the table properties                                         *)

TablesOf(nodes) == SelectSeq(nodes, LAMBDA n : n.type = "Table")

\* the blocks the table scan matches in s, from offset from on
RECURSIVE TableMatches(_, _)
TableMatches(s, from) ==
  LET m == tableRegexExec(s, from)
  IN IF ~IsMatch(m) THEN <<>> ELSE <<m>> \o TableMatches(s, m.end)

\* the matched blocks that pass the check of isMarkdownTable
RecognizedBlocks(s) ==
  LET passed == SelectSeq(TableMatches(s, 0), LAMBDA m : isMarkdownTable(m.g1))
  IN [k \in 1..Len(passed) |-> passed[k].g1]

\* the lines of a matched block: the newline it may begin with and the
\* newline it may end with belong to no line
MatchedLines(block) ==
  LET a == IF block # <<>> /\ Head(block) = NL THEN Tail(block) ELSE block
  IN BlockLines(a)

\* the pieces of a line between its pipes
RECURSIVE Components(_)
Components(line) ==
  LET pipes == {i \in 1..Len(line) : line[i] = PIPE}
  IN IF pipes = {} THEN <<line>>
     ELSE LET p == CHOOSE i \in pipes : \A j \in pipes : i <= j
          IN <<SubSeq(line, 1, p - 1)>> \o Components(SubSeq(line, p + 1, Len(line)))

IsBlank(c) == \A k \in 1..Len(c) : c[k] \in Whitespace

\* c from its first to its last character that is not whitespace
Stripped(c) ==
  LET ink == {k \in 1..Len(c) : c[k] \notin Whitespace}
  IN IF ink = {} THEN <<>>
     ELSE SubSeq(c, CHOOSE i \in ink : \A j \in ink : i <= j,
                    CHOOSE i \in ink : \A j \in ink : i >= j)

CellsOf(line) ==
  LET kept == SelectSeq(Components(line), LAMBDA c : ~IsBlank(c))
  IN [k \in 1..Len(kept) |-> Stripped(kept[k])]

----------------------------------------------------------------------------
(* C14: the cells of every header and row line of a recognized table are   *)
(* the pieces of the line between its pipes, those that are blank dropped  *)
(* (at the boundary and between adjacent pipes alike), the others trimmed, *)
(* in order; a row's cells come from its own line alone, so a row with     *)
(* more or fewer cells than the header is kept as it is.                   *)

C14_CellsOfEachLine ==
  (rendered = "span" /\ ~Includes(text, DOLLAR)) =>
    LET tables == TablesOf(elements)
        blocks == RecognizedBlocks(text)
    IN /\ Len(tables) = Len(blocks)
       /\ \A i \in DOMAIN tables :
            LET lines == MatchedLines(blocks[i])
            IN /\ tables[i].headers = CellsOf(lines[1])
               /\ \A k \in DOMAIN tables[i].rows :
                    k + 2 <= Len(lines) /\ tables[i].rows[k] = CellsOf(lines[k + 2])

\* a header of two cells, a row of one cell and a row of three, the empty
\* piece between its adjacent pipes dropped
C14_Witness ==
  /\ rendered = "span"
  /\ text = ExRagged
  /\ elements[1] = Table(<<<<"e">>, <<"f">>>>,
                         << <<<<"a">>>>, <<<<"b">>, <<"c">>, <<"d">>>> >>)

----------------------------------------------------------------------------
(* C15: in every Table node the headers come from the first line of the    *)
(* matched block, the separator line gives neither a header nor a row,     *)
(* and the rows are the lines that follow the separator, one row a line,   *)
(* in source order.                                                        *)

C15_HeaderSeparatorRows ==
  (rendered = "span" /\ ~Includes(text, DOLLAR)) =>
    LET tables == TablesOf(elements)
        blocks == RecognizedBlocks(text)
    IN /\ Len(tables) = Len(blocks)
       /\ \A i \in DOMAIN tables :
            LET lines == MatchedLines(blocks[i])
            IN /\ Len(lines) >= 2
               /\ \A c \in 1..Len(lines[2]) : lines[2][c] \in {PIPE, DASH, COLON, SP}
               /\ tables[i].headers = CellsOf(lines[1])
               /\ Len(tables[i].rows) = Len(lines) - 2
               /\ tables[i].rows = [k \in 1..(Len(lines) - 2) |-> CellsOf(lines[k + 2])]

\* two tables, the second with one row
C15_Witness ==
  /\ rendered = "span"
  /\ text = ExTwoTables
  /\ TablesOf(elements) = << Table(<<<<"a">>>>, <<>>),
                             Table(<<<<"b">>>>, << <<<<"c">>>> >>) >>

----------------------------------------------------------------------------
(* C16: a block of exactly a header line and a separator line, with no     *)
(* data row, is a Table node with the header's cells and no rows, whether  *)
(* or not a newline follows the separator line.                            *)

IsOuterPipeLine(l) == Len(l) >= 3 /\ l[1] = PIPE /\ l[Len(l)] = PIPE

\* a header line and a separator line, both within pipes, and nothing else
IsMinimalTable(s) ==
  LET ls == BlockLines(s)
  IN /\ Len(ls) = 2
     /\ IsOuterPipeLine(ls[1])
     /\ IsOuterPipeLine(ls[2]) /\ IsSeparatorLine(ls[2])

C16_MinimalTable ==
  (rendered = "span" /\ IsMinimalTable(text)) =>
    elements = <<Table(CellsOf(BlockLines(text)[1]), <<>>)>>

----------------------------------------------------------------------------
(* C17: a block matched by the table scan that fails the check of          *)
(* isMarkdownTable gives no Table node and no error: its whole text goes   *)
(* to the inline stages and its nodes stand where the block stood, after   *)
(* the nodes of the text before it and before those of the text after it.  *)

\* a Table node stands for itself, whatever its cells
Masked(nodes) ==
  [i \in DOMAIN nodes |-> IF nodes[i].type = "Table" THEN [type |-> "Table"] ELSE nodes[i]]

\* what the text from offset from on gives, ms its matched blocks
RECURSIVE ForwardedInOrder(_, _, _, _)
ForwardedInOrder(s, ms, from, rej) ==
  IF ms = <<>> THEN parseInlineContent(Slice(s, from, Len(s)), rej)
  ELSE parseInlineContent(Slice(s, from, Head(ms).index), rej)
       \o (IF isMarkdownTable(Head(ms).g1) THEN <<[type |-> "Table"]>>
           ELSE parseInlineContent(Head(ms).g1, rej))
       \o ForwardedInOrder(s, Tail(ms), Head(ms).end, rej)

HasRejectedBlock(s) ==
  LET ms == TableMatches(s, 0)
  IN \E k \in DOMAIN ms : ~isMarkdownTable(ms[k].g1)

C17_RejectedBlockForwarded ==
  (rendered = "span" /\ ~Includes(text, DOLLAR) /\ HasRejectedBlock(text)) =>
    LET ms == TableMatches(text, 0)
    IN /\ CountType(elements, "Table")
            = Cardinality({k \in DOMAIN ms : isMarkdownTable(ms[k].g1)})
       /\ "TableText" \notin Types(elements)
       /\ Masked(elements) = ForwardedInOrder(text, ms, 0, rejected)

\* a header and a line of pipes and blanks, text before and after
C17_Witness ==
  /\ rendered = "span"
  /\ text = <<"x", NL, PIPE, "a", PIPE, NL, PIPE, SP, PIPE, NL, "x">>
  /\ elements = << PlainText(<<"x">>), LineBreak, PlainText(<<PIPE, "a", PIPE>>),
                   LineBreak, PlainText(<<PIPE, SP, PIPE>>), LineBreak,
                   PlainText(<<"x">>) >>

----------------------------------------------------------------------------
(* C18: the output keeps the source order across all stages: block math    *)
(* and plain segments in their original order, the text before, between    *)
(* and after tables before, between and after the Table nodes, nothing     *)
(* skipped and nothing emitted twice.                                      *)

TableLeaf(n) ==
  Flatten(n.headers) \o Flatten([k \in DOMAIN n.rows |-> Flatten(n.rows[k])])

\* the text of the leaves of the output, tables included, in output order
OrderedLeaf(nodes) ==
  Flatten([i \in DOMAIN nodes |->
             IF nodes[i].type = "Table" THEN TableLeaf(nodes[i]) ELSE NodeLeaf(nodes[i])])

SyntaxChars == DelimiterChars \cup Whitespace \cup {PIPE, COLON}

\* the characters of s that are not markup, in order
Content(s) == SelectSeq(s, LAMBDA c : c \notin SyntaxChars)

C18_SourceOrderKept ==
  rendered = "span" => Content(OrderedLeaf(elements)) = Content(text)

\* text, a table, text, a table, text
C18_Witness ==
  /\ rendered = "span"
  /\ text = ExTwoTables
  /\ Masked(elements) = << PlainText(<<"x">>), [type |-> "Table"], PlainText(<<"y">>),
                           [type |-> "Table"], PlainText(<<"z">>) >>
  /\ Content(OrderedLeaf(elements)) = <<"x", "a", "y", "b", "c", "z">>

----------------------------------------------------------------------------
(* C19: in a text run every leftmost, non-overlapping $...$ pair whose     *)
(* content holds neither a dollar nor a newline is one InlineMath node,    *)
(* its expression the content trimmed; a pair that spans a newline is      *)
(* never an InlineMath node; the text between the pairs goes, in order,    *)
(* to the Line/List Formatter.                                             *)

\* dollars at i and j with at least one character between them, none of
\* them a dollar or a newline
IsMathPair(s, i, j) ==
  /\ i + 1 < j
  /\ s[i] = DOLLAR /\ s[j] = DOLLAR
  /\ \A k \in (i + 1)..(j - 1) : s[k] \notin {DOLLAR, NL}

\* the nodes of s from its character from on
RECURSIVE InlineMathInOrder(_, _)
InlineMathInOrder(s, from) ==
  LET pairs == {p \in (from..Len(s)) \X (from..Len(s)) : IsMathPair(s, p[1], p[2])}
  IN IF pairs = {} THEN parseMarkdown(SubSeq(s, from, Len(s)))
     ELSE LET p == CHOOSE q \in pairs : \A r \in pairs : q[1] <= r[1]
          IN parseMarkdown(SubSeq(s, from, p[1] - 1))
             \o <<InlineMathNode(Stripped(SubSeq(s, p[1] + 1, p[2] - 1)))>>
             \o InlineMathInOrder(s, p[2] + 1)

IsDoubleDollarAt(s, i) == i + 1 <= Len(s) /\ s[i] = DOLLAR /\ s[i + 1] = DOLLAR

HasBlockRegion(s) ==
  \E i \in 1..Len(s) : \E j \in (i + 2)..Len(s) :
    IsDoubleDollarAt(s, i) /\ IsDoubleDollarAt(s, j)

\* a message that reaches the Inline Math Extractor whole
IsTextRun(s) ==
  /\ ~HasBlockRegion(s)
  /\ ~(IsDoubleDollarAt(s, 1) /\ IsDoubleDollarAt(s, Len(s) - 1))
  /\ ~Includes(s, PIPE)

C19_InlineMathPairs ==
  (rendered = "span" /\ rejected = {} /\ IsTextRun(text)) =>
    /\ elements = InlineMathInOrder(text, 1)
    /\ \A i \in DOMAIN elements :
         elements[i].type = "InlineMath" => ~Includes(elements[i].expression, NL)

C19_Witness ==
  /\ rendered = "span"
  /\ text = ExInlineRun
  /\ elements = << InlineMathNode(<<"a">>), PlainText(<<"x">>), InlineMathNode(<<"b">>),
                   InlineMathNode(<<"c">>), PlainText(<<SP, DOLLAR, "d">>), LineBreak,
                   PlainText(<<"e", DOLLAR>>) >>

----------------------------------------------------------------------------
(* C20: every region from an opening $$ to the nearest closing $$ after    *)
(* it, newlines allowed inside, is one BlockMath node, its expression the  *)
(* content trimmed; the empty region $$$$ gives a BlockMath node with the  *)
(* empty expression.                                                       *)

\* the trimmed contents of the regions of s from its character from on
RECURSIVE BlockExpressions(_, _)
BlockExpressions(s, from) ==
  LET opens == {i \in from..Len(s) :
                  /\ IsDoubleDollarAt(s, i)
                  /\ \E j \in (i + 2)..Len(s) : IsDoubleDollarAt(s, j)}
  IN IF opens = {} THEN <<>>
     ELSE LET i == CHOOSE a \in opens : \A b \in opens : a <= b
              closes == {j \in (i + 2)..Len(s) : IsDoubleDollarAt(s, j)}
              j == CHOOSE a \in closes : \A b \in closes : a <= b
          IN <<Stripped(SubSeq(s, i + 2, j - 1))>> \o BlockExpressions(s, j + 2)

BlockMathOf(nodes) ==
  LET blocks == SelectSeq(nodes, LAMBDA n : n.type = "BlockMath")
  IN [k \in 1..Len(blocks) |-> blocks[k].expression]

C20_BlockMathRegions ==
  (rendered = "span" /\ rejected = {}) =>
    LET regions == BlockExpressions(text, 1)
        got == BlockMathOf(elements)
    IN /\ Len(got) >= Len(regions)
       /\ SubSeq(got, 1, Len(regions)) = regions
       /\ text = <<DOLLAR, DOLLAR, DOLLAR, DOLLAR>> => elements = <<BlockMathNode(<<>>)>>

\* two regions, the second over two lines, both trimmed
C20_Witness ==
  /\ rendered = "span"
  /\ text = ExTwoBlocks
  /\ elements = << BlockMathNode(<<"a">>), PlainText(<<"x">>),
                   BlockMathNode(<<"b">>) >>

----------------------------------------------------------------------------
(* A message where markup of one stage stands inside markup of another     *)

MaxStageTokens == 3

\* a table whose cells hold inline math, a list marker and emphasis
StageTable ==
  <<PIPE, DOLLAR, "b", DOLLAR, PIPE, NL, PIPE, DASH, PIPE, NL,
    PIPE, DASH, SP, STAR, "c", STAR, PIPE, NL>>

StageKit ==
  { DD, <<DOLLAR>>, <<STAR, "a", STAR>>, <<DASH, SP, "a">>, <<"1", DOT, SP, "a">>,
    <<NL>>, <<"a">>, StageTable }

\* a block region over list, emphasis, inline math and table markup, then a
\* table with markup in its cells, then an inline expression with markup
ExStages ==
  <<DOLLAR, DOLLAR, DASH, SP, STAR, "a", STAR, SP, DOLLAR, "a", DOLLAR, NL,
    PIPE, "a", PIPE, NL, PIPE, DASH, PIPE, NL, DOLLAR, DOLLAR, NL>>
  \o StageTable
  \o <<DOLLAR, DASH, SP, STAR, "a", STAR, DOLLAR>>

\* a list marker right after an inline expression
ExMathThenItem == <<DOLLAR, "x", DOLLAR, DASH, SP, "b">>

\* a bullet line with an inline expression in it
ExItemWithMath == <<DASH, SP, "a", SP, DOLLAR, "x", DOLLAR, SP, "b">>

StageInputs ==
  {Flatten(ts) : ts \in UNION {[1..n -> StageKit] : n \in 0..MaxStageTokens}}
  \cup {ExStages, ExMathThenItem, ExItemWithMath}

InitStage ==
  /\ text \in StageInputs
  /\ rejected = {}
  /\ elements = <<>>
  /\ rendered = "pending"
  /\ log = <<>>
  /\ scan = ScanIdle
  /\ sse = SseIdle
  /\ app = AppIdle

NextStage == MarkdownLatex

SpecStage == InitStage /\ [][NextStage]_vars

----------------------------------------------------------------------------
(* C21: the stages take their text in order and none looks into what an    *)
(* earlier one took: a matched $$...$$ region gives its BlockMath node and *)
(* nothing else, whatever table, inline math, list or emphasis markup it   *)
(* holds; a recognized table gives its Table node alone, the cells the     *)
(* plain strings of its lines; an inline expression gives its InlineMath   *)
(* node alone, its content never resolved for list markers or emphasis.    *)

\* the characters at which a region opens: a $$ with a $$ after it
RegionOpens(s) ==
  {i \in 1..Len(s) : IsDoubleDollarAt(s, i)
                     /\ \E j \in (i + 2)..Len(s) : IsDoubleDollarAt(s, j)}

FirstOpen(s) == CHOOSE i \in RegionOpens(s) : \A k \in RegionOpens(s) : i <= k

\* the nearest $$ that closes the region opened at character i
FirstClose(s, i) ==
  CHOOSE j \in (i + 2)..Len(s) :
    IsDoubleDollarAt(s, j) /\ \A k \in (i + 2)..(j - 1) : ~IsDoubleDollarAt(s, k)

\* the text after the last region of s
RECURSIVE AfterRegions(_)
AfterRegions(s) ==
  IF RegionOpens(s) = {} THEN s
  ELSE AfterRegions(SubSeq(s, FirstClose(s, FirstOpen(s)) + 2, Len(s)))

\* the Table node of a recognized block: cells as written, never resolved
PlainTable(block) ==
  LET lines == MatchedLines(block)
  IN Table(CellsOf(lines[1]), [k \in 1..(Len(lines) - 2) |-> CellsOf(lines[k + 2])])

\* what a text outside the regions gives from offset from on, ms its
\* matched blocks
RECURSIVE TablesThenInline(_, _, _)
TablesThenInline(s, ms, from) ==
  IF ms = <<>> THEN InlineMathInOrder(Slice(s, from, Len(s)), 1)
  ELSE InlineMathInOrder(Slice(s, from, Head(ms).index), 1)
       \o (IF isMarkdownTable(Head(ms).g1) THEN <<PlainTable(Head(ms).g1)>>
           ELSE InlineMathInOrder(Head(ms).g1, 1))
       \o TablesThenInline(s, Tail(ms), Head(ms).end)

\* regions first, then tables, then inline math, then lines
RECURSIVE StagesInOrder(_)
StagesInOrder(s) ==
  IF RegionOpens(s) = {} THEN TablesThenInline(s, TableMatches(s, 0), 0)
  ELSE LET i == FirstOpen(s)
           j == FirstClose(s, i)
           before == SubSeq(s, 1, i - 1)
       IN TablesThenInline(before, TableMatches(before, 0), 0)
          \o <<BlockMathNode(Stripped(SubSeq(s, i + 2, j - 1)))>>
          \o StagesInOrder(SubSeq(s, j + 2, Len(s)))

\* the message ends in a $$ or $$$ that opens no region
EndsInStrayDollars(s) == AfterRegions(s) \in {DD, DD \o <<DOLLAR>>}

C21_StagePrecedence ==
  (rendered = "span" /\ rejected = {} /\ ~EndsInStrayDollars(text)) =>
    elements = StagesInOrder(text)

C21_Witness ==
  /\ rendered = "span"
  /\ text = ExStages
  /\ elements =
       << BlockMathNode(<<DASH, SP, STAR, "a", STAR, SP, DOLLAR, "a", DOLLAR, NL,
                          PIPE, "a", PIPE, NL, PIPE, DASH, PIPE>>),
          Table(<< <<DOLLAR, "b", DOLLAR>> >>, << << <<DASH, SP, STAR, "c", STAR>> >> >>),
          InlineMathNode(<<DASH, SP, STAR, "a", STAR>>) >>

----------------------------------------------------------------------------
(* C22: every line is one of three things, tried in this order: a line     *)
(* that starts with - or * and whitespace is a bullet ListItem whose       *)
(* children are the inline-resolved remainder, also when the remainder     *)
(* looks like "1. x"; a line that starts with digits, a dot and whitespace *)
(* is a numbered ListItem; any other line, "-x", "1.x" and "*word*"        *)
(* included, is inline-resolved with no ListItem around it.                *)

\* the line from its first character after character p that is not whitespace
AfterBlanks(line, p) ==
  LET ink == {k \in (p + 1)..Len(line) : line[k] \notin Whitespace}
  IN IF ink = {} THEN <<>>
     ELSE SubSeq(line, CHOOSE i \in ink : \A j \in ink : i <= j, Len(line))

IsItemOver(n, kind, rest) ==
  n.type = "ListItem" /\ n.kind = kind /\ n.children = parseInlineMarkdown(rest)

C22_LineClasses ==
  (rendered = "run" /\ text # <<>>) =>
    LET lines == Split(text, NL)
        groups == NodeGroups(elements)
    IN /\ Len(groups) = Len(lines)
       /\ \A k \in DOMAIN lines :
            LET line == lines[k]
                digits == {d \in 1..Len(line) : IsNumberedLine(line, d)}
            IN IF IsBulletMarked(line)
               THEN Len(groups[k]) = 1
                    /\ IsItemOver(groups[k][1], "bullet", AfterBlanks(line, 1))
               ELSE IF digits # {}
               THEN Len(groups[k]) = 1
                    /\ \A d \in digits :
                         IsItemOver(groups[k][1], "numbered", AfterBlanks(line, d + 1))
               ELSE groups[k] = parseInlineMarkdown(line)
                    /\ "ListItem" \notin Types(groups[k])

C22_Witness ==
  /\ rendered = "run"
  /\ text = ExPriority
  /\ elements = << ListItem("bullet", BulletGlyph, <<PlainText(<<"1", DOT, SP, "x">>)>>),
                   LineBreak,
                   ListItem("numbered", <<"1">>, <<PlainText(<<DASH, SP, "x">>)>>),
                   LineBreak, PlainText(<<DASH, "x">>),
                   LineBreak, PlainText(<<"1", DOT, "x">>),
                   LineBreak, Italic(<<"y">>) >>

----------------------------------------------------------------------------
(* C23: on a line, every occurrence of the chosen class, taken leftmost    *)
(* and without overlap, the first one included, is one node of that class, *)
(* in source order; the text before, between and after the occurrences is  *)
(* PlainText as written, blanks included; a non-empty line on which no     *)
(* class matches is one PlainText node equal to the line.                  *)

\* the offset in the line at which the source of node i begins
SpanStart(nodes, i) == Len(InlineSources(SubSeq(nodes, 1, i - 1)))

SpanEnd(nodes, i) == SpanStart(nodes, i) + Len(InlineSource(nodes[i]))

\* node i is the occurrence of class c that begins where its source begins
IsOccurrence(c, line, nodes, i) ==
  LET m == PatternAt(c, line, SpanStart(nodes, i))
  IN IsMatch(m) /\ m.end = SpanEnd(nodes, i) /\ nodes[i] = PatternRender(c, m)

\* no occurrence of class c begins within the source of node i
HoldsNoOccurrence(c, line, nodes, i) ==
  \A p \in SpanStart(nodes, i)..(SpanEnd(nodes, i) - 1) : ~IsMatch(PatternAt(c, line, p))

C23_EveryOccurrenceInOrder ==
  (rendered = "line" /\ text # <<>>) =>
    LET c == FirstClass(text)
    IN /\ InlineSources(elements) = text
       /\ c = 0 => elements = <<PlainText(text)>>
       /\ c # 0 =>
            \A i \in DOMAIN elements :
              IF elements[i].type = "PlainText"
              THEN HoldsNoOccurrence(c, text, elements, i)
              ELSE IsOccurrence(c, text, elements, i)

C23_Witness ==
  /\ rendered = "line"
  /\ text = ExTwoSpans
  /\ elements = << PlainText(<<SP>>), Italic(<<"a">>), PlainText(<<SP, "b", SP, SP>>),
                   Italic(<<"c">>), PlainText(<<SP>>) >>

----------------------------------------------------------------------------
(* C24: a line with an unmatched delimiter (a ** with no closing **, as in *)
(* "**a*"; a single backquote; a [ that opens no link) gets no node of     *)
(* that delimiter's class, and the delimiter characters stand unchanged in *)
(* the text of the output: none of them is taken as markup.  (The text of  *)
(* any node is accepted here, not that of PlainText nodes alone.)          *)

\* the offsets of the line that node i shows as text
KeptOffsets(nodes, i) ==
  LET a == SpanStart(nodes, i)
      b == SpanEnd(nodes, i)
      n == nodes[i]
  IN CASE n.type = "PlainText" -> a..(b - 1)
       [] n.type = "Bold" -> (a + 2)..(b - 3)
       [] n.type = "Link" -> ((a + 1)..(a + Len(n.text))) \cup ((a + Len(n.text) + 3)..(b - 2))
       [] OTHER -> (a + 1)..(b - 2)

\* every occurrence of the delimiter w in the line is shown as text
StaysLiteral(nodes, line, w) ==
  \A p \in 0..(Len(line) - 1) :
    StartsWithAt(line, p, w) =>
      \A q \in p..(p + Len(w) - 1) : \E i \in DOMAIN nodes : q \in KeptOffsets(nodes, i)

HasUnmatchedBold(line) == Occurs(line, <<STAR, STAR>>) /\ ~HasMatch(1, line)

HasSingleTick(line) == Cardinality({k \in 1..Len(line) : line[k] = TICK}) = 1

HasUnmatchedBracket(line) == Includes(line, LBRACK) /\ ~HasMatch(4, line)

C24_UnmatchedStaysLiteral ==
  rendered = "line" =>
    /\ HasUnmatchedBold(text) =>
         "Bold" \notin Types(elements) /\ StaysLiteral(elements, text, <<STAR, STAR>>)
    /\ HasSingleTick(text) =>
         "InlineCode" \notin Types(elements) /\ StaysLiteral(elements, text, <<TICK>>)
    /\ HasUnmatchedBracket(text) =>
         "Link" \notin Types(elements) /\ StaysLiteral(elements, text, <<LBRACK>>)

----------------------------------------------------------------------------
(* C25: a ListItem comes only from a marker (-, * or digits and a dot,     *)
(* then whitespace) at the beginning of a line of the message, offset 0 or *)
(* right after a newline: the output holds no more ListItem nodes than the *)
(* message has lines that begin with a marker, and "$x$- b" gives none.    *)

\* the lines of the message that begin with a list marker
MarkedLines(s) ==
  LET lines == Split(s, NL)
  IN {k \in DOMAIN lines :
        IsBulletMarked(lines[k]) \/ \E d \in 1..Len(lines[k]) : IsNumberedLine(lines[k], d)}

C25_ItemsAtLineStarts ==
  rendered = "span" =>
    /\ CountType(elements, "ListItem") <= Cardinality(MarkedLines(text))
    /\ text = ExMathThenItem => "ListItem" \notin Types(elements)

----------------------------------------------------------------------------
(* C26: a list line gives one ListItem that holds everything of the line   *)
(* up to the next newline: an inline expression on the line, as in         *)
(* "- a $x$ b", is a child of the item, and nothing of the line stands     *)
(* beside the item at the top level.                                       *)

C26_ItemOwnsLine ==
  (rendered = "span" /\ ~Occurs(text, DD) /\ ~Includes(text, PIPE)) =>
    LET groups == NodeGroups(elements)
    IN \A k \in MarkedLines(text) :
         k \in DOMAIN groups =>
           Len(groups[k]) = 1 /\ groups[k][1].type = "ListItem"

----------------------------------------------------------------------------
(* C27: every Table node of the output has at least one header cell: no    *)
(* block is accepted as a table whose header line, such as "| |", gives no *)
(* cell once the blank pieces are dropped.                                 *)

C27_HeadersNotEmpty ==
  rendered = "span" =>
    \A i \in DOMAIN elements : elements[i].type = "Table" => elements[i].headers # <<>>

----------------------------------------------------------------------------
(* C28: the nodes of a non-empty line tile it: laid end to end in output   *)
(* order from the first character of the line, every node stands on its    *)
(* own source (a PlainText node on its text, any other node on its whole   *)
(* delimited match), no span is empty, and the last span ends with the     *)
(* line; no PlainText node is the empty string.                            *)

C28_SpansTileLine ==
  (rendered = "line" /\ text # <<>>) =>
    /\ elements # <<>>
    /\ \A i \in DOMAIN elements :
         /\ SpanStart(elements, i) < SpanEnd(elements, i)
         /\ SpanEnd(elements, i) <= Len(text)
         /\ Slice(text, SpanStart(elements, i), SpanEnd(elements, i))
              = InlineSource(elements[i])
         /\ elements[i].type = "PlainText" => elements[i].text # <<>>
    /\ SpanEnd(elements, Len(elements)) = Len(text)

\* two matches side by side, no text between them, then text to the end
C28_Witness ==
  /\ rendered = "line"
  /\ text = ExTwoBold
  /\ elements = <<Bold(<<"a">>), Bold(<<"b">>), PlainText(<<STAR, STAR, "c">>)>>

----------------------------------------------------------------------------
(* App: sendChatMessage reads the response of /api/chat chunk by chunk     *)

MaxChunks == 3

EventPrefix == <<"e", "v", "e", "n", "t", COLON, SP>>
DataPrefix == <<"d", "a", "t", "a", COLON, SP>>

EvText == <<"t", "e", "x", "t">>
EvPlot == <<"p", "l", "o", "t">>
EvStatus == <<"s", "t", "a", "t", "u", "s">>
EvDone == <<"d", "o", "n", "e">>

\* JSON.parse on the payloads of the model: a number without a leading
\* zero parses to its value, anything else throws
JsonParse(s) ==
  IF s # <<>> /\ (\A k \in 1..Len(s) : s[k] \in Digits) /\ (Len(s) > 1 => s[1] # "0")
  THEN [ok |-> TRUE, value |-> s]
  ELSE [ok |-> FALSE]

\* handleSSEEvent(eventType, data) on the state a of the component
handleSSEEvent(a, eventType, data) ==
  CASE eventType = EvText ->
         [a EXCEPT !.messages = Append(@, [role |-> "assistant", text |-> data])]
    [] eventType = EvPlot ->
         [a EXCEPT !.messages = Append(@, [role |-> "system", text |-> data])]
    [] eventType = EvStatus -> [a EXCEPT !.statusMessage = "status"]
    [] eventType = EvDone -> [a EXCEPT !.statusMessage = "null"]
    [] OTHER -> a

\* let currentEvent = "" inside the while loop: every chunk starts with no
\* event line pending, whatever the chunk before left
CurrentEventAtChunkStart(carried) == <<>>

\* the event line pending after the for loop over lines
RECURSIVE PendingEvent(_, _)
PendingEvent(lines, currentEvent) ==
  IF lines = <<>> THEN currentEvent
  ELSE IF StartsWith(Head(lines), EventPrefix)
  THEN PendingEvent(Tail(lines), Slice(Head(lines), Len(EventPrefix), Len(Head(lines))))
  ELSE IF StartsWith(Head(lines), DataPrefix) /\ currentEvent # <<>>
  THEN PendingEvent(Tail(lines), <<>>)
  ELSE PendingEvent(Tail(lines), currentEvent)

\* for (const line of lines): the calls of handleSSEEvent it makes
RECURSIVE DispatchLines(_, _)
DispatchLines(lines, currentEvent) ==
  IF lines = <<>> THEN <<>>
  ELSE IF StartsWith(Head(lines), EventPrefix)
  THEN DispatchLines(Tail(lines), Slice(Head(lines), Len(EventPrefix), Len(Head(lines))))
  ELSE IF StartsWith(Head(lines), DataPrefix) /\ currentEvent # <<>>
  THEN LET data == JsonParse(Slice(Head(lines), Len(DataPrefix), Len(Head(lines))))
       IN (IF data.ok THEN <<[event |-> currentEvent, data |-> data.value]>> ELSE <<>>)
          \o DispatchLines(Tail(lines), <<>>)
  ELSE DispatchLines(Tail(lines), currentEvent)

\* the component after the calls of handleSSEEvent in the sequence calls
RECURSIVE ApplyEvents(_, _)
ApplyEvents(a, calls) ==
  IF calls = <<>> THEN a
  ELSE ApplyEvents(handleSSEEvent(a, Head(calls).event, Head(calls).data), Tail(calls))

\* the complete lines of the buffer: lines.pop() takes the last piece away
CompleteLines(buffer) ==
  LET lines == Split(buffer, NL) IN SubSeq(lines, 1, Len(lines) - 1)

\* buffer = lines.pop() || ""
LastPiece(buffer) ==
  LET lines == Split(buffer, NL) IN lines[Len(lines)]

EventLine(name) == EventPrefix \o name
DataLine(payload) == DataPrefix \o payload

\* response streams: one event; two events; two events, the last line not
\* ended by a newline; a payload that is no JSON, then an event; a data
\* line with no event line before it, then an event
StreamBodies ==
  { Join(<<EventLine(EvText), DataLine(<<"1">>), <<>>, <<>>>>, <<NL>>),
    Join(<<EventLine(EvText), DataLine(<<"1">>), <<>>,
           EventLine(EvDone), DataLine(<<"2">>), <<>>, <<>>>>, <<NL>>),
    Join(<<EventLine(EvText), DataLine(<<"1">>), <<>>,
           EventLine(EvStatus), DataLine(<<"2">>)>>, <<NL>>),
    Join(<<EventLine(EvText), DataLine(<<"x">>), <<>>,
           EventLine(EvPlot), DataLine(<<"1">>), <<>>, <<>>>>, <<NL>>),
    Join(<<DataLine(<<"1">>), EventLine(EvText), DataLine(<<"2">>), <<>>>>, <<NL>>) }

\* body cut after the characters cuts[1] < cuts[2] < ...
ChunksAt(body, cuts) ==
  [k \in 1..(Len(cuts) + 1) |->
     SubSeq(body, (IF k = 1 THEN 0 ELSE cuts[k - 1]) + 1,
                  IF k > Len(cuts) THEN Len(body) ELSE cuts[k])]

\* every way read() may deliver body in at most MaxChunks chunks, none empty
Chunkings(body) ==
  { ChunksAt(body, cuts) :
      cuts \in { c \in UNION {[1..n -> 1..(Len(body) - 1)] : n \in 0..(MaxChunks - 1)} :
                   \A k \in 1..(Len(c) - 1) : c[k] < c[k + 1] } }

InitStream ==
  /\ text = <<>>
  /\ rejected = {}
  /\ elements = <<>>
  /\ rendered = "idle"
  /\ log = <<>>
  /\ scan = ScanIdle
  /\ sse = SseIdle
  /\ app = AppIdle

\* sendChatMessage up to getReader(): the fetch answered, response.ok
OpenStream ==
  /\ sse.state = "idle"
  /\ \E body \in StreamBodies : \E chunks \in Chunkings(body) :
       sse' = [state |-> "reading", body |-> body, chunks |-> chunks,
               buffer |-> <<>>, dispatched |-> <<>>, pending |-> <<>>]
  /\ UNCHANGED <<text, rejected, elements, rendered, log, scan, app>>

\* one turn of while (true): reader.read() gave a chunk
ReadChunk ==
  /\ sse.state = "reading"
  /\ sse.chunks # <<>>
  /\ sse' = [sse EXCEPT
       !.chunks = Tail(@),
       !.buffer = LastPiece(sse.buffer \o Head(sse.chunks)),
       !.dispatched =
          @ \o DispatchLines(CompleteLines(sse.buffer \o Head(sse.chunks)),
                             CurrentEventAtChunkStart(sse.pending)),
       !.pending =
          PendingEvent(CompleteLines(sse.buffer \o Head(sse.chunks)),
                       CurrentEventAtChunkStart(sse.pending))]
  /\ app' = ApplyEvents(app, SubSeq(sse'.dispatched, Len(sse.dispatched) + 1,
                                    Len(sse'.dispatched)))
  /\ UNCHANGED <<text, rejected, elements, rendered, log, scan>>

\* reader.read() gave done: break, whatever is left in the buffer
ReadDone ==
  /\ sse.state = "reading"
  /\ sse.chunks = <<>>
  /\ sse' = [sse EXCEPT !.state = "closed"]
  /\ UNCHANGED <<text, rejected, elements, rendered, log, scan, app>>

NextStream == OpenStream \/ ReadChunk \/ ReadDone

SpecStream == InitStream /\ [][NextStream]_vars

----------------------------------------------------------------------------
(* C29: every event of the response stream, an "event: " line followed by  *)
(* a "data: " line with valid JSON, is handed to handleSSEEvent exactly    *)
(* once and in stream order, however the stream is cut into read() chunks: *)
(* also when a chunk ends between the event line and its data line, and    *)
(* when the last line has no newline after it.                             *)

\* the events of a stream: line k an event line, line k + 1 its data line
EventsOf(body) ==
  LET lines == Split(body, NL)
      at == {k \in 1..(Len(lines) - 1) :
               /\ StartsWith(lines[k], EventPrefix) /\ Len(lines[k]) > Len(EventPrefix)
               /\ StartsWith(lines[k + 1], DataPrefix)
               /\ JsonParse(SubSeq(lines[k + 1], Len(DataPrefix) + 1, Len(lines[k + 1]))).ok}
      event(k) == [event |-> SubSeq(lines[k], Len(EventPrefix) + 1, Len(lines[k])),
                   data |-> SubSeq(lines[k + 1], Len(DataPrefix) + 1, Len(lines[k + 1]))]
  IN [i \in 1..Cardinality(at) |->
        event(CHOOSE k \in at : Cardinality({j \in at : j < k}) = i - 1)]

C29_EveryEventDispatchedOnce ==
  sse.state = "closed" => sse.dispatched = EventsOf(sse.body)

----------------------------------------------------------------------------
(* App: handleSend and handleFileUpload, one await per step                *)

MaxHandlers == 3

\* how a fetch and the reading of its answer may end
Outcomes == {"ok", "nonOk", "rejected", "invalidJson"}

\* the status line a chat stream may leave behind
StatusLeft == {"null", "status"}

Message(role) == [role |-> role, text |-> <<>>]

InitBusy ==
  /\ text = <<>>
  /\ rejected = {}
  /\ elements = <<>>
  /\ rendered = "idle"
  /\ log = <<>>
  /\ scan = ScanIdle
  /\ sse = SseIdle
  /\ app = AppIdle

\* handleSend up to await sendChatMessage(currentInput)
HandleSend ==
  /\ app.pc = "idle"
  /\ app.fileInfo /\ ~app.isLoading
  /\ app.runs < MaxHandlers
  /\ app' = [app EXCEPT !.messages = Append(@, Message("user")), !.isLoading = TRUE,
                        !.pc = "send:chat", !.runs = @ + 1]
  /\ UNCHANGED <<text, rejected, elements, rendered, log, scan, sse>>

\* sendChatMessage settles: catch when it threw, then finally
SendChatSettles ==
  /\ app.pc = "send:chat"
  /\ \E outcome \in Outcomes :
       app' = [app EXCEPT
         !.messages = IF outcome = "ok" THEN @ ELSE Append(@, Message("assistant")),
         !.isLoading = FALSE, !.statusMessage = "null", !.pc = "idle"]
  /\ UNCHANGED <<text, rejected, elements, rendered, log, scan, sse>>

\* handleFileUpload up to await saveMessageToBackend("user", ...)
HandleFileUpload ==
  /\ app.pc = "idle"
  /\ ~app.isLoading
  /\ app.runs < MaxHandlers
  /\ app' = [app EXCEPT !.isLoading = TRUE, !.messages = Append(@, Message("user")),
                        !.pc = "upload:save", !.runs = @ + 1]
  /\ UNCHANGED <<text, rejected, elements, rendered, log, scan, sse>>

\* saveMessageToBackend settles: it catches what its fetch throws
SaveMessageSettles ==
  /\ app.pc = "upload:save"
  /\ \E outcome \in Outcomes : app' = [app EXCEPT !.pc = "upload:file"]
  /\ UNCHANGED <<text, rejected, elements, rendered, log, scan, sse>>

\* uploadFile settles: true with the file info set, false for any failure
UploadFileSettles ==
  /\ app.pc = "upload:file"
  /\ \E outcome \in Outcomes :
       app' = IF outcome = "ok"
              THEN [app EXCEPT !.fileInfo = TRUE, !.pc = "upload:preview"]
              ELSE [app EXCEPT !.messages = Append(@, Message("assistant")),
                               !.pc = "upload:saveError"]
  /\ UNCHANGED <<text, rejected, elements, rendered, log, scan, sse>>

\* the else branch: saveMessageToBackend("assistant", errorText) settles
SaveErrorSettles ==
  /\ app.pc = "upload:saveError"
  /\ \E outcome \in Outcomes : app' = [app EXCEPT !.isLoading = FALSE, !.pc = "idle"]
  /\ UNCHANGED <<text, rejected, elements, rendered, log, scan, sse>>

\* await fetch(`/api/preview/...`) and await response.json(), outside any
\* try: a rejection or a body that is no JSON ends the handler there
PreviewSettles ==
  /\ app.pc = "upload:preview"
  /\ \E outcome \in Outcomes :
       app' = CASE outcome = "ok" -> [app EXCEPT !.fileInfo = TRUE, !.pc = "upload:summary"]
                [] outcome = "nonOk" -> [app EXCEPT !.isLoading = FALSE, !.pc = "idle"]
                [] OTHER -> [app EXCEPT !.pc = "idle"]
  /\ UNCHANGED <<text, rejected, elements, rendered, log, scan, sse>>

\* the automatic summary: sendChatMessage inside try/catch
SummarySettles ==
  /\ app.pc = "upload:summary"
  /\ \E outcome \in Outcomes : \E left \in StatusLeft :
       app' = [app EXCEPT
         !.messages = IF outcome = "ok" THEN @ ELSE Append(@, Message("system")),
         !.statusMessage = left, !.pc = "upload:suggestions"]
  /\ UNCHANGED <<text, rejected, elements, rendered, log, scan, sse>>

\* the suggestions fetch inside try/catch, then setIsLoading(false)
SuggestionsSettle ==
  /\ app.pc = "upload:suggestions"
  /\ \E outcome \in Outcomes : app' = [app EXCEPT !.isLoading = FALSE, !.pc = "idle"]
  /\ UNCHANGED <<text, rejected, elements, rendered, log, scan, sse>>

\* an awaited call of the handler in progress settles
Settles ==
  \/ SendChatSettles
  \/ SaveMessageSettles
  \/ UploadFileSettles
  \/ SaveErrorSettles
  \/ PreviewSettles
  \/ SummarySettles
  \/ SuggestionsSettle

NextBusy == HandleSend \/ HandleFileUpload \/ Settles

\* every network call settles, one way or another
SpecBusy == InitBusy /\ [][NextBusy]_vars /\ WF_vars(Settles)

----------------------------------------------------------------------------
(* C30: after a handleSend or handleFileUpload has set isLoading, it       *)
(* becomes false again, however the network calls of the handler end:      *)
(* the chat input and the upload controls never stay disabled.             *)

C30_BusyFlagReleased == app.isLoading ~> ~app.isLoading

====
